---- MODULE Spec2Model ----
(***************************************************************************)
(* Model of incrementor: the version bump function (src/lib.rs), the      *)
(* placeholder substitution and per-file search/replace (src/lib.rs,      *)
(* src/main.rs), and the invocation sequence of main() with its file,     *)
(* configuration and git effects (src/main.rs, src/git_operations.rs).    *)
(*                                                                         *)
(* Text is a sequence of one-character strings, so that formatting,       *)
(* splitting, parsing and pattern matching are computed, not assumed.     *)
(***************************************************************************)
EXTENDS Integers, Sequences, FiniteSets, TLC

\* ------------------------------------------------------------------ bounds
MaxNum == 2        \* largest major/minor/patch drawn for an initial version
MaxCounter == 2    \* largest prerelease counter drawn for an initial version
MaxBumps == 3      \* number of consecutive bump calls explored
TextMaxNum == 0    \* largest major number of a version rendered into text
MaxTemplatePieces == 3   \* pieces a template is made of
MaxContentPieces == 4    \* pieces a file's contents is made of
MaxFiles == 2      \* managed files of a configuration

\* -------------------------------------------------------------- text tools
Digits == <<"0", "1", "2", "3", "4", "5", "6", "7", "8", "9">>

DigitSet == {Digits[i] : i \in 1..10}

DigitVal(c) == (CHOOSE i \in 1..10 : Digits[i] = c) - 1

RECURSIVE Concat(_)
Concat(ss) == IF ss = <<>> THEN <<>> ELSE Head(ss) \o Concat(Tail(ss))

\* u64 Display: decimal digits, no leading zeros
RECURSIVE u64_to_string(_)
u64_to_string(n) ==
    IF n < 10 THEN <<Digits[n + 1]>>
    ELSE u64_to_string(n \div 10) \o <<Digits[(n % 10) + 1]>>

\* str::parse::<u64>: -1 stands for Err (empty text or a non-digit)
RECURSIVE parse_digits(_, _)
parse_digits(s, acc) ==
    IF s = <<>> THEN acc
    ELSE parse_digits(Tail(s), acc * 10 + DigitVal(Head(s)))

parse_u64(s) ==
    IF s # <<>> /\ \A i \in 1..Len(s) : s[i] \in DigitSet
    THEN parse_digits(s, 0)
    ELSE -1

\* str::split(sep): always yields at least one (possibly empty) piece
RECURSIVE split_from(_, _, _)
split_from(s, sep, cur) ==
    IF s = <<>> THEN <<cur>>
    ELSE IF Head(s) = sep THEN <<cur>> \o split_from(Tail(s), sep, <<>>)
    ELSE split_from(Tail(s), sep, Append(cur, Head(s)))

split(s, sep) == split_from(s, sep, <<>>)

\* ---------------------------------------------------------------- versions
EMPTY == <<>>      \* Prerelease::EMPTY / BuildMetadata::EMPTY

Version_new(ma, mi, pa) ==
    [major |-> ma, minor |-> mi, patch |-> pa, pre |-> EMPTY, build |-> EMPTY]

\* semver::Version as Display prints it
Version_to_string(v) ==
    u64_to_string(v.major) \o <<".">> \o u64_to_string(v.minor) \o <<".">>
      \o u64_to_string(v.patch)
      \o (IF v.pre = EMPTY THEN <<>> ELSE <<"-">> \o v.pre)
      \o (IF v.build = EMPTY THEN <<>> ELSE <<"+">> \o v.build)

\* Part
Major == [kind |-> "Major"]
Minor == [kind |-> "Minor"]
Patch == [kind |-> "Patch"]
\* Option<T>: None is the empty sequence, Some(x) the one-element sequence
None == <<>>

Some(x) == <<x>>

ReleasePrerelease == [kind |-> "Prerelease", label |-> None]

PrereleasePart(l) == [kind |-> "Prerelease", label |-> Some(l)]

Ok(v) == [tag |-> "Ok", v |-> v]
Err(e) == [tag |-> "Err", e |-> e]
Panic == [tag |-> "Panic"]

parse_prerelease(s) ==
    LET splits == split(s, ".") IN
    IF Len(splits) >= 1
    THEN IF Len(splits) >= 2
         THEN IF parse_u64(splits[2]) = -1
              THEN Panic                                   \* unwrap() on Err
              ELSE Ok(<<Some(splits[1]), Some(parse_u64(splits[2]))>>)
         ELSE Ok(<<Some(splits[1]), None>>)
    ELSE Ok(<<None, None>>)

make_prerelease(label, version) == label \o <<".">> \o u64_to_string(version)

\* lines 41-43 with a clone of v in place of Version::new
bump_core_clone(v, part) ==
    CASE part.kind = "Major" -> [v EXCEPT !.major = v.major + 1, !.minor = 0, !.patch = 0]
      [] part.kind = "Minor" -> [v EXCEPT !.minor = v.minor + 1, !.patch = 0]
      [] part.kind = "Patch" -> [v EXCEPT !.patch = v.patch + 1]

\* the Major, Minor and Patch arms: a fresh Version
bump_core(v, part) ==
    CASE part.kind = "Major" -> Version_new(v.major + 1, 0, 0)
      [] part.kind = "Minor" -> Version_new(v.major, v.minor + 1, 0)
      [] part.kind = "Patch" -> Version_new(v.major, v.minor, v.patch + 1)

\* lines 44-53 without the is_empty test
bump_release_noop(v) == Ok([v EXCEPT !.pre = EMPTY])

\* the Prerelease(None) arm: returns from bump before the build step
bump_release(v) ==
    IF v.pre = EMPTY
    THEN Err("missing prerelease")
    ELSE Ok([v EXCEPT !.pre = EMPTY])

\* the Prerelease(Some(label)) arm
bump_label(v, label) ==
    LET p == parse_prerelease(v.pre) IN
    IF p.tag = "Panic" THEN Panic
    ELSE LET existing == p.v[1]
             n == p.v[2]
             pre == IF existing # None /\ n = None /\ existing[1] = label
                      THEN make_prerelease(label, 1)
                    ELSE IF existing # None /\ n # None /\ existing[1] = label
                      THEN make_prerelease(label, n[1] + 1)
                    ELSE IF existing # None /\ existing[1] # label
                      THEN label
                    ELSE EMPTY
         IN Ok([v EXCEPT !.pre = pre])

\* bump whose Patch arm also resets the minor number
bump_patch_resets_minor(v, part, build) ==
    LET add_build(r) ==
            IF r.tag = "Ok"
            THEN Ok([r.v EXCEPT !.build = IF build = None THEN EMPTY ELSE build[1]])
            ELSE r
    IN
    CASE part.kind = "Patch" -> add_build(Ok(Version_new(v.major, 0, v.patch + 1)))
      [] part.kind \in {"Major", "Minor"} -> add_build(Ok(bump_core(v, part)))
      [] part.kind = "Prerelease" /\ part.label = None -> bump_release(v)
      [] part.kind = "Prerelease" /\ part.label # None ->
            add_build(bump_label(v, part.label[1]))
      [] OTHER -> Panic

bump(v, part, build) ==
    LET add_build(r) ==
            IF r.tag = "Ok"
            THEN Ok([r.v EXCEPT !.build = IF build = None THEN EMPTY ELSE build[1]])
            ELSE r
    IN
    CASE part.kind \in {"Major", "Minor", "Patch"} -> add_build(Ok(bump_core(v, part)))
      [] part.kind = "Prerelease" /\ part.label = None -> bump_release(v)
      [] part.kind = "Prerelease" /\ part.label # None ->
            add_build(bump_label(v, part.label[1]))
      [] OTHER -> Panic                                    \* Part::None

\* ------------------------------------------------- placeholder substitution
CurTok == <<"{", "c", "u", "r", "r", "e", "n", "t", "_", "v", "e", "r", "s", "i", "o", "n", "}">>

NewTok == <<"{", "n", "e", "w", "_", "v", "e", "r", "s", "i", "o", "n", "}">>

starts_with(s, i, tok) ==
    i + Len(tok) - 1 <= Len(s) /\ SubSeq(s, i, i + Len(tok) - 1) = tok

\* position of the leftmost occurrence of the literal tok in s, 0 if none
find(s, tok) ==
    IF \E i \in 1..Len(s) : starts_with(s, i, tok)
    THEN CHOOSE i \in 1..Len(s) :
            starts_with(s, i, tok) /\ \A j \in 1..(i - 1) : ~starts_with(s, j, tok)
    ELSE 0

\* Regex::replace with a literal pattern: the leftmost match only
Regex_replace(s, tok, rep) ==
    LET i == find(s, tok) IN
    IF i = 0 THEN s
    ELSE SubSeq(s, 1, i - 1) \o rep \o SubSeq(s, i + Len(tok), Len(s))

Placeholders_replace(ph, s) ==
    LET result == Regex_replace(s, CurTok, Version_to_string(ph.current_version))
    IN Regex_replace(result, NewTok, Version_to_string(ph.new_version))

\* ------------------------------------------------------- search and replace
\* str::replace('+', "\\+")
RECURSIVE escape_plus(_)
escape_plus(s) ==
    IF s = <<>> THEN <<>>
    ELSE (IF Head(s) = "+" THEN <<"\\", "+">> ELSE <<Head(s)>>) \o escape_plus(Tail(s))

\* The pattern syntax that rendered rules use: an escaped character, '.',
\* '^', '$', and literal characters.
RECURSIVE Regex_compile(_)
Regex_compile(p) ==
    IF p = <<>> THEN <<>>
    ELSE IF Head(p) = "\\" /\ Len(p) >= 2
         THEN <<[k |-> "lit", c |-> p[2]]>> \o Regex_compile(Tail(Tail(p)))
    ELSE IF Head(p) = "." THEN <<[k |-> "any"]>> \o Regex_compile(Tail(p))
    ELSE IF Head(p) = "^" THEN <<[k |-> "bol"]>> \o Regex_compile(Tail(p))
    ELSE IF Head(p) = "$" THEN <<[k |-> "eol"]>> \o Regex_compile(Tail(p))
    ELSE <<[k |-> "lit", c |-> Head(p)]>> \o Regex_compile(Tail(p))

NoMatch == 0

\* '$' in multi-line mode: the end of the text or of a line
eol(text, pos) == pos = Len(text) + 1 \/ text[pos] = "\n"

\* '^' in multi-line mode
bol(text, pos) == pos = 1 \/ text[pos - 1] = "\n"

\* the position after the match of atoms k.. that starts at pos, or NoMatch
RECURSIVE match_from(_, _, _, _)
match_from(re, k, text, pos) ==
    IF k > Len(re) THEN pos
    ELSE LET a == re[k] IN
         CASE a.k = "lit" ->
                IF pos <= Len(text) /\ text[pos] = a.c
                THEN match_from(re, k + 1, text, pos + 1) ELSE NoMatch
           [] a.k = "any" ->
                IF pos <= Len(text) /\ text[pos] # "\n"
                THEN match_from(re, k + 1, text, pos + 1) ELSE NoMatch
           [] a.k = "bol" ->
                IF bol(text, pos) THEN match_from(re, k + 1, text, pos) ELSE NoMatch
           [] a.k = "eol" ->
                IF eol(text, pos) THEN match_from(re, k + 1, text, pos) ELSE NoMatch

match_at(re, text, pos) == match_from(re, 1, text, pos)

is_match(re, text) == \E i \in 1..(Len(text) + 1) : match_at(re, text, i) # NoMatch

\* Regex::replace_all: the leftmost, non-overlapping matches, left to right
RECURSIVE replace_all_from(_, _, _, _)
replace_all_from(re, text, rep, pos) ==
    IF pos > Len(text) + 1 THEN <<>>
    ELSE LET e == match_at(re, text, pos)
             next == IF pos <= Len(text) THEN <<text[pos]>> ELSE <<>>
         IN IF e = NoMatch THEN next \o replace_all_from(re, text, rep, pos + 1)
            ELSE IF e = pos THEN rep \o next \o replace_all_from(re, text, rep, pos + 1)
            ELSE rep \o replace_all_from(re, text, rep, e)

\* Regex::replace in place of replace_all: only the leftmost match
replace_first_only(re, text, rep) ==
    IF ~is_match(re, text) THEN text
    ELSE LET i == CHOOSE i \in 1..(Len(text) + 1) :
                     /\ match_at(re, text, i) # NoMatch
                     /\ \A j \in 1..(i - 1) : match_at(re, text, j) = NoMatch
         IN SubSeq(text, 1, i - 1) \o rep \o SubSeq(text, match_at(re, text, i), Len(text))

replace_all(re, text, rep) == replace_all_from(re, text, rep, 1)

replace_version(content, file_config, placeholders) ==
    LET search_re == Regex_compile(
                        escape_plus(Placeholders_replace(placeholders, file_config.search)))
        replace_value == Placeholders_replace(placeholders, file_config.replace)
    IN IF is_match(search_re, content)
       THEN Ok(replace_all(search_re, content, replace_value))
       ELSE Err("Unable to find current version")

\* ----------------------------------------------- state of the three models
VARIABLES
    ver,        \* the version a caller of bump currently holds
    bumpIn,     \* arguments of the last bump call, or NoCall
    bumpOut,    \* its result, or NoCall
    nbumps,     \* bump calls made so far
    txIn,       \* arguments of a Placeholders::replace or replace_version call
    txOut,      \* its result, or NoCall
    pc,         \* where main() is: idle, files, config, commit, tag, done, failed
    args,       \* the parsed command line
    config,     \* main's Config value
    local,      \* main's locals: git_tag, git_commit, versions, loop position
    output,     \* main's Output buffer
    err,        \* the error main returned, or NoError
    disk,       \* the managed files and the configuration file
    git,        \* the repository: HEAD's snapshot, other changes, commits, tags
    disk0,      \* disk when the invocation started
    git0        \* git when the invocation started

bumpVars == <<ver, bumpIn, bumpOut, nbumps>>

textVars == <<txIn, txOut>>

mainVars == <<pc, args, config, local, output, err, disk, git, disk0, git0>>

vars == <<ver, bumpIn, bumpOut, nbumps, txIn, txOut,
          pc, args, config, local, output, err, disk, git, disk0, git0>>

NoCall == [tag |-> "NoCall"]

\* ------------------------------------------------------- inputs of bump
Labels == {<<"a">>, <<"b">>}

Counters == 0..MaxCounter

\* prerelease texts of initial versions: none, a label, label.counter, and a
\* label followed by a non-numeric second identifier
InitPres ==
    {EMPTY} \cup Labels
      \cup {make_prerelease(l, n) : l \in Labels, n \in Counters}
      \cup {l1 \o <<".">> \o l2 : l1 \in Labels, l2 \in Labels}

BuildTexts == {<<"x">>, <<"y">>}

InitVersions ==
    [major : 0..MaxNum, minor : 0..MaxNum, patch : 0..MaxNum,
     pre : InitPres, build : {EMPTY} \cup BuildTexts]

Parts == {Major, Minor, Patch, ReleasePrerelease} \cup {PrereleasePart(l) : l \in Labels}

BuildArgs == {None} \cup {Some(b) : b \in BuildTexts}

\* ---------------------------------------------------- model 1: bump calls
BumpIdle ==
    /\ ver = Version_new(0, 0, 0)
    /\ bumpIn = NoCall
    /\ bumpOut = NoCall
    /\ nbumps = 0

TextIdle ==
    /\ txIn = NoCall
    /\ txOut = NoCall

MainIdle ==
    /\ pc = "off"
    /\ args = NoCall
    /\ config = NoCall
    /\ local = NoCall
    /\ output = NoCall
    /\ err = NoCall
    /\ disk = NoCall
    /\ git = NoCall
    /\ disk0 = NoCall
    /\ git0 = NoCall

InitBump ==
    /\ ver \in InitVersions
    /\ bumpIn = NoCall
    /\ bumpOut = NoCall
    /\ nbumps = 0
    /\ TextIdle
    /\ MainIdle

\* a caller bumps the version it holds and keeps the result when there is one
CallBump ==
    /\ nbumps < MaxBumps
    /\ \E part \in Parts, build \in BuildArgs :
         LET r == bump(ver, part, build) IN
         /\ bumpIn' = [tag |-> "Call", v |-> ver, part |-> part, build |-> build]
         /\ bumpOut' = r
         /\ ver' = IF r.tag = "Ok" THEN r.v ELSE ver
    /\ nbumps' = nbumps + 1
    /\ UNCHANGED <<textVars, mainVars>>

NextBump == CallBump

SpecBump == InitBump /\ [][NextBump]_vars

\* ------------------------------- model 2: substitution and rewrite calls
\* sequences of at most n pieces
RECURSIVE SeqsUpTo(_, _)
SeqsUpTo(S, n) ==
    IF n = 0 THEN {<<>>}
    ELSE LET shorter == SeqsUpTo(S, n - 1) IN
         shorter \cup {Append(q, x) : q \in shorter, x \in S}

TextVersions ==
    {v \in InitVersions :
        /\ v.major <= TextMaxNum /\ v.minor = 0 /\ v.patch = 0
        /\ v.pre \in {EMPTY, <<"a">>, <<"a", ".", "1">>}
        /\ v.build \in {EMPTY, <<"x">>}}

\* templates: the two tokens any number of times, other text, other braces
TemplatePieces == {CurTok, NewTok, <<"v">>, <<"{", "v", "}">>}

Templates == {Concat(q) : q \in SeqsUpTo(TemplatePieces, MaxTemplatePieces)}

\* FileConfig::default, the rule of the tests with its end-of-line anchor,
\* and a rule anchored at the start of a line
DefaultRule == [search |-> CurTok, replace |-> NewTok]

FileRules ==
    {DefaultRule,
     [search |-> <<"v", "=">> \o CurTok \o <<"$">>, replace |-> <<"v", "=">> \o NewTok],
     [search |-> <<"^">> \o CurTok, replace |-> NewTok]}

\* the current version and the version a bump of it gives
BumpPairs ==
    {[current_version |-> c, new_version |-> bump(c, part, None).v] :
        <<c, part>> \in {cp \in TextVersions \X Parts : bump(cp[1], cp[2], None).tag = "Ok"}}

ContentPieces(ph) ==
    <<Version_to_string(ph.current_version), Version_to_string(ph.new_version),
      <<"v", "=">> \o Version_to_string(ph.current_version), <<"\n">>>>

\* a file's contents: the pieces numbered by q, in order
ContentOf(ph, q) == Concat([k \in 1..Len(q) |-> ContentPieces(ph)[q[k]]])

PieceChoices == SeqsUpTo(1..4, MaxContentPieces)

InitText ==
    /\ BumpIdle
    /\ MainIdle
    /\ txOut = NoCall
    /\ \/ \E c \in TextVersions, n \in TextVersions, t \in Templates :
            txIn = [tag |-> "replace",
                    ph |-> [current_version |-> c, new_version |-> n], s |-> t]
       \/ \E ph \in BumpPairs, r \in FileRules, q \in PieceChoices :
            txIn = [tag |-> "replace_version", ph |-> ph, rule |-> r,
                    content |-> ContentOf(ph, q)]

CallPlaceholdersReplace ==
    /\ txIn.tag = "replace"
    /\ txOut = NoCall
    /\ txOut' = Ok(Placeholders_replace(txIn.ph, txIn.s))
    /\ UNCHANGED <<txIn, bumpVars, mainVars>>

CallReplaceVersion ==
    /\ txIn.tag = "replace_version"
    /\ txOut = NoCall
    /\ txOut' = replace_version(txIn.content, txIn.rule, txIn.ph)
    /\ UNCHANGED <<txIn, bumpVars, mainVars>>

NextText == CallPlaceholdersReplace \/ CallReplaceVersion

SpecText == InitText /\ [][NextText]_vars

\* ------------------------------------------------ model 3: one run of main
NoError == <<>>

MissingFile == <<"ENOENT">>      \* no file at the path

DefaultCommitMessage == <<"b", "u", "m", "p", " ">> \o CurTok \o <<" ", "-", ">", " ">> \o NewTok

\* the version of a configuration: a release, a prerelease, and a prerelease
\* whose second identifier is not a number
MainVersions ==
    {v \in InitVersions :
        /\ v.major = 0 /\ v.minor = 0 /\ v.patch = 0 /\ v.build = EMPTY
        /\ v.pre \in {EMPTY, <<"a">>, <<"a", ".", "b">>}}

\* the "part" argument group: exactly one of its six arguments is given
NoPartArgs ==
    [prerelease |-> None, patch |-> FALSE, minor |-> FALSE, major |-> FALSE,
     release |-> FALSE, new_version |-> None]

PartArgs ==
    {[NoPartArgs EXCEPT !.prerelease = Some(l)] : l \in {<<"a">>}}
      \cup {[NoPartArgs EXCEPT !.patch = TRUE], [NoPartArgs EXCEPT !.minor = TRUE],
            [NoPartArgs EXCEPT !.major = TRUE], [NoPartArgs EXCEPT !.release = TRUE],
            [NoPartArgs EXCEPT !.new_version = Some(Version_new(1, 0, 0))]}

\* tag_group and commit_group: at most one argument of each is given
FlagPairs == {<<FALSE, FALSE>>, <<TRUE, FALSE>>, <<FALSE, TRUE>>}

parse_part_from_args(a) ==
    IF a.prerelease # None THEN PrereleasePart(a.prerelease[1])
    ELSE IF a.patch THEN Patch
    ELSE IF a.minor THEN Minor
    ELSE IF a.major THEN Major
    ELSE IF a.release THEN ReleasePrerelease
    ELSE [kind |-> "None"]

git_tag(a, c) == (a.tag /\ ~a.no_tag) \/ c.tag

git_commit(a, c) == (a.commit /\ ~a.no_commit) \/ c.commit

\* repo.statuses() is empty: the tracked files are as in HEAD and nothing else
\* is changed
statuses_empty(g, d) == ~g.dirt /\ d = g.head

\* Git::is_dirty_check returns Ok
is_dirty_check(allow_dirty, g, d) == allow_dirty \/ statuses_empty(g, d)

is_dirty(allow_dirty, g, d) == ~is_dirty_check(allow_dirty, g, d)

\* lines 203-211: the supplied version, or the bump of the current one
new_version_of(a, current_version) ==
    IF a.new_version # None THEN Ok(a.new_version[1])
    ELSE bump(current_version, parse_part_from_args(a), a.build)

\* lines 243-245 without the dry_run test
write_always(dry_run, files, path, contents) == [files EXCEPT ![path] = contents]

\* lines 243-245: fs::write unless dry_run
write_unless_dry_run(dry_run, files, path, contents) ==
    IF ~dry_run THEN [files EXCEPT ![path] = contents] ELSE files

\* Git::commit: add everything, commit it on HEAD
Git_commit(g, d, message) ==
    [g EXCEPT !.head = d, !.dirt = FALSE, !.commits = Append(@, message)]

\* Git::tag: refuses a dirty tree, then tags HEAD's commit
Git_tag(allow_dirty, g, d, tag) ==
    IF ~is_dirty_check(allow_dirty, g, d)
    THEN Err(<<"Git working directory is dirty">>)
    ELSE Ok([g EXCEPT !.tags = Append(@, [name |-> tag, commit |-> Len(g.commits)])])

\* what a managed file may hold when main starts
FileChoices(v) ==
    {MissingFile, <<"v", "=">> \o Version_to_string(v), <<"z">>}

InitMain ==
    /\ BumpIdle
    /\ TextIdle
    /\ pc = "idle"
    /\ args = NoCall
    /\ local = NoCall
    /\ err = NoError
    /\ \E v \in MainVersions, c \in BOOLEAN, t \in BOOLEAN, n \in 0..MaxFiles :
         /\ config = [current_version |-> v, commit |-> c, tag |-> t,
                      files |-> [k \in 1..n |-> DefaultRule]]
         /\ \E fs \in [1..n -> FileChoices(v)] :
              disk = [files |-> fs, config |-> config]
         /\ output = [files |-> [k \in 1..n |-> None], git_tag |-> None,
                      git_commit_message |-> None, printed |-> FALSE]
    /\ \E dirt \in BOOLEAN :
         git = [head |-> disk, dirt |-> dirt, commits |-> <<>>, tags |-> <<>>]
    /\ disk0 = disk
    /\ git0 = git

Fail(e) ==
    /\ pc' = "failed"
    /\ err' = e

\* lines 175-229: arguments, configuration, the dirty check, the new version
Begin ==
    /\ pc = "idle"
    /\ \E p \in PartArgs, tg \in FlagPairs, cg \in FlagPairs,
          dry \in BOOLEAN, dirty \in BOOLEAN, b \in {None, Some(<<"x">>)} :
         args' = p @@
                 [dry_run |-> dry, build |-> b, tag |-> tg[1], no_tag |-> tg[2],
                  commit |-> cg[1], no_commit |-> cg[2], allow_dirty |-> dirty]
    /\ LET gt == git_tag(args', config)
           gc == git_commit(args', config)
           nv == new_version_of(args', config.current_version)
       IN IF (gt \/ gc) /\ is_dirty(args'.allow_dirty, git, disk)
          THEN Fail(<<"Repository is dirty">>) /\ UNCHANGED local
          ELSE IF nv.tag = "Panic"
          THEN Fail(<<"panic">>) /\ UNCHANGED local
          ELSE IF nv.tag = "Err"
          THEN Fail(<<nv.e>>) /\ UNCHANGED local
          ELSE /\ pc' = "files"
               /\ local' = [git_tag |-> gt, git_commit |-> gc,
                            current_version |-> config.current_version,
                            new_version |-> nv.v, i |-> 1]
               /\ UNCHANGED err
    /\ UNCHANGED <<config, output, disk, git, disk0, git0, bumpVars, textVars>>

placeholders_of(l) ==
    [current_version |-> l.current_version, new_version |-> l.new_version]

\* lines 231-251, one turn of the loop: read, rewrite, record, write
ProcessFile ==
    /\ pc = "files"
    /\ local.i <= Len(config.files)
    /\ LET path == local.i
           content == disk.files[path]
           r == replace_version(content, config.files[path], placeholders_of(local))
       IN IF content = MissingFile
          THEN Fail(<<"File not found">>) /\ UNCHANGED <<output, disk, local>>
          ELSE IF r.tag = "Err"
          THEN Fail(<<r.e>>) /\ UNCHANGED <<output, disk, local>>
          ELSE /\ output' = [output EXCEPT !.files[path] = Some(r.v)]
               /\ disk' = [disk EXCEPT
                             !.files = write_unless_dry_run(args.dry_run, @, path, r.v)]
               /\ local' = [local EXCEPT !.i = @ + 1]
               /\ UNCHANGED <<pc, err>>
    /\ UNCHANGED <<args, config, git, disk0, git0, bumpVars, textVars>>

\* the configuration written without waiting for the loop over the files to end
WriteConfigEarly ==
    /\ pc = "files"
    /\ config' = [config EXCEPT !.current_version = local.new_version]
    /\ disk' = IF ~args.dry_run THEN [disk EXCEPT !.config = config'] ELSE disk
    /\ pc' = "commit"
    /\ UNCHANGED <<args, local, output, err, git, disk0, git0, bumpVars, textVars>>

\* lines 253-258: the configuration with the new version, written unless dry_run
WriteConfig ==
    /\ pc = "files"
    /\ local.i > Len(config.files)
    /\ config' = [config EXCEPT !.current_version = local.new_version]
    /\ disk' = IF ~args.dry_run THEN [disk EXCEPT !.config = config'] ELSE disk
    /\ pc' = "commit"
    /\ UNCHANGED <<args, local, output, err, git, disk0, git0, bumpVars, textVars>>

\* lines 260-264
Commit ==
    /\ pc = "commit"
    /\ IF local.git_commit /\ ~args.dry_run
       THEN LET message == Placeholders_replace(placeholders_of(local), DefaultCommitMessage)
            IN /\ git' = Git_commit(git, disk, message)
               /\ output' = [output EXCEPT !.git_commit_message = Some(message)]
       ELSE UNCHANGED <<git, output>>
    /\ pc' = "tag"
    /\ UNCHANGED <<args, config, local, err, disk, disk0, git0, bumpVars, textVars>>

\* lines 266-274
Tag ==
    /\ pc = "tag"
    /\ IF local.git_tag /\ ~args.dry_run
       THEN LET tag == <<"v">> \o Version_to_string(local.new_version)
                r == Git_tag(args.allow_dirty, git, disk, tag)
            IN IF r.tag = "Err"
               THEN Fail(r.e) /\ UNCHANGED <<git, output>>
               ELSE /\ git' = r.v
                    /\ output' = [output EXCEPT !.git_tag = Some(tag), !.printed = TRUE]
                    /\ pc' = "done"
                    /\ UNCHANGED err
       ELSE /\ output' = [output EXCEPT !.printed = TRUE]
            /\ pc' = "done"
            /\ UNCHANGED <<git, err>>
    /\ UNCHANGED <<args, config, local, disk, disk0, git0, bumpVars, textVars>>

Next == Begin \/ ProcessFile \/ WriteConfig \/ Commit \/ Tag

Spec == InitMain /\ [][Next]_vars

\* ---------------------------------------------------------------------------
\* Model 4: successive invocations, each resolving its new version as main does
\* (lines 199-211) and persisting it as current_version (lines 253-258)
\* ---------------------------------------------------------------------------

\* versions a caller gives to --new-version
ExplicitTargets == {Version_new(0, 0, 0), Version_new(0, 1, 0), Version_new(1, 0, 0)}

\* an invocation with --new-version: the parsed target is the new version
CallNewVersion ==
    /\ nbumps < MaxBumps
    /\ \E target \in ExplicitTargets, build \in BuildArgs :
         LET a == [NoPartArgs EXCEPT !.new_version = Some(target)] @@ [build |-> build]
             r == new_version_of(a, ver)
         IN
         /\ bumpIn' = [tag |-> "NewVersion", v |-> ver, target |-> target, build |-> build]
         /\ bumpOut' = r
         /\ ver' = IF r.tag = "Ok" THEN r.v ELSE ver
    /\ nbumps' = nbumps + 1
    /\ UNCHANGED <<textVars, mainVars>>

NextVersion == CallBump \/ CallNewVersion

SpecVersion == InitBump /\ [][NextVersion]_vars

\* ------------------------------------------------------ claims about bump
SameCore(v, w) == v.major = w.major /\ v.minor = w.minor /\ v.patch = w.patch

\* C2: whenever bump succeeds, the build metadata of the result is the build
\* argument (empty for None), whatever build metadata the input carried.
C2_BuildFromArgumentOnly ==
    (bumpIn.tag = "Call" /\ bumpOut.tag = "Ok") =>
        bumpOut.v.build = (IF bumpIn.build = None THEN EMPTY ELSE bumpIn.build[1])

\* C3: bump(v, Prerelease(label)) keeps major, minor and patch and yields the
\* prerelease label (no prerelease, or another first segment), label.1 (same
\* first segment, no counter) or label.(n+1) (same first segment, counter n);
\* k such bumps of a version whose prerelease is exactly label give label.k.
C3_PrereleaseRule ==
    (bumpIn.tag = "Call" /\ bumpIn.part.kind = "Prerelease" /\ bumpIn.part.label # None) =>
        LET v == bumpIn.v
            label == bumpIn.part.label[1]
            segs == split(v.pre, ".")
            counter == IF Len(segs) >= 2 THEN parse_u64(segs[2]) ELSE -1
            expected == IF v.pre = EMPTY \/ segs[1] # label THEN label
                        ELSE IF counter = -1 THEN label \o <<".", "1">>
                        ELSE label \o <<".">> \o u64_to_string(counter + 1)
        IN /\ bumpOut.tag = "Ok"
           /\ SameCore(bumpOut.v, v)
           /\ bumpOut.v.pre = expected
           /\ (v.pre = label) =>
                 LET r == bump(bumpOut.v, bumpIn.part, None) IN
                 r.tag = "Ok" /\ r.v.pre = label \o <<".", "2">>

\* C4: Major, Minor and Patch always succeed with core (major+1, 0, 0),
\* (major, minor+1, 0), (major, minor, patch+1) and an empty prerelease.
C4_CoreBumpClearsPrerelease ==
    (bumpIn.tag = "Call" /\ bumpIn.part.kind \in {"Major", "Minor", "Patch"}) =>
        LET v == bumpIn.v
            k == bumpIn.part.kind
        IN /\ bumpOut.tag = "Ok"
           /\ bumpOut.v.pre = EMPTY
           /\ k = "Major" => <<bumpOut.v.major, bumpOut.v.minor, bumpOut.v.patch>>
                               = <<v.major + 1, 0, 0>>
           /\ k = "Minor" => <<bumpOut.v.major, bumpOut.v.minor, bumpOut.v.patch>>
                               = <<v.major, v.minor + 1, 0>>
           /\ k = "Patch" => <<bumpOut.v.major, bumpOut.v.minor, bumpOut.v.patch>>
                               = <<v.major, v.minor, v.patch + 1>>

\* a Patch bump of a version that carries a prerelease has returned
C4_Witness ==
    /\ bumpIn.tag = "Call"
    /\ bumpIn.part = Patch
    /\ bumpIn.v.pre # EMPTY
    /\ bumpOut.tag = "Ok"

\* C5: removing the prerelease is an error when there is none (the caller's
\* version is not returned), and otherwise succeeds with the same core and an
\* empty prerelease.
C5_ReleaseRequiresPrerelease ==
    (bumpIn.tag = "Call" /\ bumpIn.part = ReleasePrerelease) =>
        IF bumpIn.v.pre = EMPTY
        THEN bumpOut.tag = "Err"
        ELSE /\ bumpOut.tag = "Ok"
             /\ SameCore(bumpOut.v, bumpIn.v)
             /\ bumpOut.v.pre = EMPTY

\* the prerelease was removed from a version that had none: the call failed
C5_Witness ==
    /\ bumpIn.tag = "Call"
    /\ bumpIn.part = ReleasePrerelease
    /\ bumpIn.v.pre = EMPTY
    /\ bumpOut.tag = "Err"

\* --------------------------------- claims about substitution and rewriting
\* the template with every token replaced, scanned once from left to right
RECURSIVE RenderAll(_, _, _)
RenderAll(s, cur, new) ==
    IF s = <<>> THEN <<>>
    ELSE IF starts_with(s, 1, CurTok)
         THEN cur \o RenderAll(SubSeq(s, Len(CurTok) + 1, Len(s)), cur, new)
    ELSE IF starts_with(s, 1, NewTok)
         THEN new \o RenderAll(SubSeq(s, Len(NewTok) + 1, Len(s)), cur, new)
    ELSE <<Head(s)>> \o RenderAll(Tail(s), cur, new)

\* C6: Placeholders::replace replaces every occurrence of {current_version}
\* and of {new_version} by the version's text and keeps all other text.
C6_EveryOccurrenceReplaced ==
    (txIn.tag = "replace" /\ txOut.tag = "Ok") =>
        txOut.v = RenderAll(txIn.s, Version_to_string(txIn.ph.current_version),
                            Version_to_string(txIn.ph.new_version))

\* the matches find_iter reports: <<start, end>> pairs, leftmost first
RECURSIVE MatchesFrom(_, _, _)
MatchesFrom(re, text, pos) ==
    IF pos > Len(text) + 1 THEN <<>>
    ELSE LET e == match_at(re, text, pos) IN
         IF e = NoMatch THEN MatchesFrom(re, text, pos + 1)
         ELSE <<<<pos, e>>>> \o MatchesFrom(re, text, IF e = pos THEN pos + 1 ELSE e)

\* text with the given matches cut out and rep put in, last match first
RECURSIVE Splice(_, _, _)
Splice(text, ms, rep) ==
    IF ms = <<>> THEN text
    ELSE LET m == ms[Len(ms)] IN
         Splice(SubSeq(text, 1, m[1] - 1) \o rep \o SubSeq(text, m[2], Len(text)),
                SubSeq(ms, 1, Len(ms) - 1), rep)

RenderedSearch == Regex_compile(escape_plus(Placeholders_replace(txIn.ph, txIn.rule.search)))

RenderedReplace == Placeholders_replace(txIn.ph, txIn.rule.replace)

\* C7: replace_version fails exactly when the rendered pattern matches
\* nowhere; otherwise every match is replaced by the rendered replace template
\* and the text outside the matches, such as a line the pattern does not match,
\* is unchanged.
C7_AllMatchesOrFailure ==
    (txIn.tag = "replace_version" /\ txOut # NoCall) =>
        LET text == txIn.content
            ms == MatchesFrom(RenderedSearch, text, 1)
            lines == split(text, "\n")
        IN /\ txOut.tag = "Err" <=> ms = <<>>
           /\ txOut.tag \in {"Ok", "Err"}
           /\ txOut.tag = "Ok" =>
                LET out == split(txOut.v, "\n") IN
                /\ txOut.v = Splice(text, ms, RenderedReplace)
                /\ Len(out) = Len(lines)
                /\ \A k \in 1..Len(lines) :
                      is_match(RenderedSearch, lines[k]) <=> out[k] # lines[k]

\* a rewrite with the end-of-line rule succeeded on contents of several lines,
\* one of which holds the rule's text before more text and is left as it was
C7_Witness ==
    /\ txIn.tag = "replace_version"
    /\ txIn.rule.search[Len(txIn.rule.search)] = "$"
    /\ txOut.tag = "Ok"
    /\ LET lines == split(txIn.content, "\n")
           out == split(txOut.v, "\n")
       IN /\ Len(lines) >= 2
          /\ \E k \in 1..Len(lines) :
                /\ find(lines[k], <<"v", "=">> \o Version_to_string(txIn.ph.current_version)) # 0
                /\ out[k] = lines[k]
          /\ \E k \in 1..Len(lines) : out[k] # lines[k]

\* C8: with the default rule, contents that hold the new version and not the
\* current one are rejected, and so is the output of a successful rewrite.
C8_AlreadyBumpedFails ==
    (txIn.tag = "replace_version" /\ txIn.rule = DefaultRule /\ txOut # NoCall) =>
        LET cur == Version_to_string(txIn.ph.current_version)
            new == Version_to_string(txIn.ph.new_version)
        IN /\ txOut.tag = "Ok" =>
                replace_version(txOut.v, txIn.rule, txIn.ph).tag = "Err"
           /\ (find(txIn.content, new) # 0 /\ find(txIn.content, cur) = 0) =>
                txOut.tag = "Err"

\* ------------------------------------------------- claims about a run of main
\* C1: when a run that is not a dry run fails on a file (missing, or pattern
\* not found), the files before it hold what they held when the run started.
C1_NoFileWrittenOnLaterFailure ==
    (pc = "failed" /\ ~args.dry_run
       /\ err \in {<<"File not found">>, <<"Unable to find current version">>}) =>
        \A k \in 1..(local.i - 1) : disk.files[k] = disk0.files[k]

\* C9: a dry run writes no managed file and no configuration, commits and
\* tags nothing, and still computes and reports each file's new contents.
C9_DryRunWritesNothing ==
    (pc # "idle" /\ args.dry_run) =>
        /\ disk = disk0
        /\ git = git0
        /\ output.git_tag = None /\ output.git_commit_message = None
        /\ pc = "done" =>
             /\ output.printed
             /\ \A k \in 1..Len(disk0.config.files) :
                   LET r == replace_version(disk0.files[k], disk0.config.files[k],
                                            placeholders_of(local))
                   IN r.tag = "Ok" /\ output.files[k] = Some(r.v)

\* a dry run with a file to rewrite, a commit and a tag requested, has finished
C9_Witness ==
    /\ pc = "done"
    /\ args.dry_run
    /\ Len(config.files) >= 1
    /\ local.git_tag
    /\ local.git_commit

\* C10: a run that ends with a dirty-repository error has written no managed
\* file and no configuration, whichever of commit and tag were requested.
C10_DirtyFailureBeforeMutation ==
    (pc = "failed"
       /\ err \in {<<"Repository is dirty">>, <<"Git working directory is dirty">>}) =>
        disk = disk0

\* C11: a supplied --new-version becomes the new version with its major,
\* minor, patch and prerelease, and with the build argument as its build
\* metadata (none for None).
C11_ExplicitVersionGetsBuild ==
    (local # NoCall /\ args.new_version # None) =>
        LET target == args.new_version[1] IN
        /\ SameCore(local.new_version, target)
        /\ local.new_version.pre = target.pre
        /\ local.new_version.build = (IF args.build = None THEN EMPTY ELSE args.build[1])

\* the (major, minor, patch) triple of v is at most that of w, lexicographically
TripleLeq(v, w) ==
    \/ v.major < w.major
    \/ v.major = w.major /\ v.minor < w.minor
    \/ v.major = w.major /\ v.minor = w.minor /\ v.patch <= w.patch

\* C12 as stated: whatever the kind of bump, an explicit target included, the
\* triple of the new version is at least the triple of the current one, so the
\* persisted version's triple never decreases from one invocation to the next.
C12_TripleNeverDecreases == [][TripleLeq(ver, ver')]_vars

\* C12, amended: an invocation that bumps with Major, Minor, Patch, a
\* prerelease label or a release leaves a triple at least as large as the one
\* it found; an explicit target is taken verbatim and may be lower.
C12_ArithmeticBumpNeverDecreases ==
    [][bumpIn'.tag = "Call" =>
          /\ TripleLeq(ver, ver')
          /\ bumpOut'.tag = "Ok" => TripleLeq(bumpIn'.v, bumpOut'.v)]_vars

\* a patch bump has raised the patch number and kept major and minor
C12_Witness ==
    /\ bumpIn.tag = "Call"
    /\ bumpIn.part = Patch
    /\ bumpOut.tag = "Ok"
    /\ bumpOut.v.patch = bumpIn.v.patch + 1
    /\ bumpOut.v.minor = bumpIn.v.minor
    /\ bumpOut.v.major = bumpIn.v.major
    /\ bumpIn.v.minor > 0
    /\ ver = bumpOut.v

\* C13: a run given --no-tag creates no tag and a run given --no-commit
\* creates no commit, whatever the configuration's tag and commit fields are.
C13_NoFlagsSuppress ==
    args # NoCall =>
        /\ args.no_tag => git.tags = git0.tags
        /\ args.no_commit => git.commits = git0.commits

\* C14: for a version whose prerelease has a second segment that is not an
\* unsigned integer, bump(v, Prerelease(label)) returns a version, without
\* panic or error, whose prerelease is label.1 when the first segment equals
\* label and label alone otherwise.
C14_NonNumericSecondSegmentIsNoCounter ==
    LET segments == IF bumpIn.tag = "Call" THEN split(bumpIn.v.pre, ".") ELSE <<>> IN
    (/\ bumpIn.tag = "Call"
     /\ bumpIn.part.kind = "Prerelease"
     /\ bumpIn.part.label # None
     /\ Len(segments) >= 2
     /\ parse_u64(segments[2]) = -1) =>
        /\ bumpOut.tag = "Ok"
        /\ bumpOut.v.pre = IF segments[1] = bumpIn.part.label[1]
                             THEN make_prerelease(bumpIn.part.label[1], 1)
                             ELSE bumpIn.part.label[1]

\* managed file k no longer holds what it held when the run started
FileWritten(k) == disk.files[k] # disk0.files[k]

ConfigWritten == disk.config # disk0.config

\* C15: files are written in configuration order; the configuration is
\* written with current_version = new_version only once every managed file
\* has been rewritten and written; a commit is made only after the
\* configuration write and holds it; a tag is made only after the commit step
\* and, when a commit was requested too, names the commit of this run.
C15_DurableStepsInOrder ==
    local # NoCall =>
        /\ \A k \in 1..Len(config.files) :
              FileWritten(k) =>
                 /\ k < local.i
                 /\ \A j \in 1..(k - 1) : FileWritten(j)
        /\ ConfigWritten =>
              /\ local.i > Len(config.files)
              /\ \A k \in 1..Len(config.files) :
                    /\ FileWritten(k)
                    /\ output.files[k] = Some(disk.files[k])
              /\ disk.config.current_version = local.new_version
              /\ pc \in {"commit", "tag", "done", "failed"}
        /\ git.commits # git0.commits =>
              /\ ConfigWritten
              /\ git.head = disk
              /\ pc \in {"tag", "done", "failed"}
        /\ git.tags # git0.tags =>
              /\ ConfigWritten
              /\ pc = "done"
              /\ local.git_commit =>
                    /\ Len(git.commits) = Len(git0.commits) + 1
                    /\ git.tags[Len(git.tags)].commit = Len(git.commits)
                    /\ git.head.config.current_version = local.new_version

\* a run over two managed files that wrote both, then the configuration, then
\* committed and tagged
C15_Witness ==
    /\ pc = "done"
    /\ Len(config.files) = 2
    /\ FileWritten(1) /\ FileWritten(2)
    /\ ConfigWritten
    /\ Len(git.commits) = 1
    /\ Len(git.tags) = 1
    /\ git.tags[1].commit = 1

====
